---- MODULE Spec2Model ----
(***************************************************************************)
(* Certificate lifecycle coordinator of postalsys/certs (lib/certs.js),    *)
(* modelled for one domain D in a shared Redis store.                      *)
(*                                                                         *)
(* Time is counted in seconds (the source counts milliseconds for          *)
(* RENEW_AFTER_REMAINING and the lock lease, seconds for the EXPIRE of     *)
(* lock:safe:<D>).  Every await of the source is one step of a caller.     *)
(*                                                                         *)
(* Fault model: the ACME calls (init, accounts.create, certificates.create)*)
(* and the hash write of Settings.set may fail.  The lock service, the     *)
(* reads and the lock:safe pipeline are reliable.                          *)
(***************************************************************************)
EXTENDS Integers, FiniteSets, Sequences, TLC

\* ------------------------------------------------------------- constants
Day == 24 * 3600
\* certs.js:18  10000 + 30 * 24 * 3600 * 1000 ms
RENEW_AFTER_REMAINING == 10 + 30 * Day
\* certs.js:19  seconds, handed to EXPIRE
BLOCK_RENEW_AFTER_ERROR_TTL == 10
\* certs.js:311 waitAcquireLock(key, 10 * 60 * 1000, 3 * 60 * 1000)
LOCK_TTL == 10 * 60
LOCK_WAIT == 3 * 60
\* lifetime of a certificate the CA issues (Let's Encrypt: 90 days)
CertLifetime == 90 * Day
\* the clock when the model starts
Now0 == 100 * Day

\* ---------------------------------------------------------------- bounds
\* invocations each caller may start
MaxCalls == 1
\* clock advances in one behaviour
MaxTicks == 1

\* the callers; the coordinator is run by the first two, each a process of
\* its own
Procs == {1, 2, 3}
Workers == {1, 2}
Insts == Procs
TickSteps == {BLOCK_RENEW_AFTER_ERROR_TTL, LOCK_WAIT, LOCK_TTL}

VARIABLES
    \* settings hash, fields of domain D and of the account
    dataF, pkF, lastCheckF, lastErrorF, certVersionF, acctF,
    \* flat keys: lock:safe:<D> (expiry time, 0 = absent), lock:op:<D>
    safeUntil, opLock,
    \* Settings.set of the account, sent and not yet applied
    acctInFlight,
    \* clock
    now, ticks,
    \* Certs instances
    acmeInitialized, acmeInitializing, acmeInitPending, inst,
    \* callers
    op, pc, calls, frame, result, did,
    \* fresh key and certificate identities
    nextKey, nextCert,
    \* history: certificates stored by WriteValid, the record at the start,
    \* and every certificate stored with the certVersion at its hmset
    issued, rec0, stored,
    \* the challenge key challenge:<D>:<T>, and the callers of the challenge
    \* store and of routeHandler
    chKey, chFrame, chResult,
    \* one run of validateDomain's CAA check
    caa

vars == <<dataF, pkF, lastCheckF, lastErrorF, certVersionF, acctF, safeUntil,
          opLock, acctInFlight, now, ticks, acmeInitialized, acmeInitializing,
          acmeInitPending, inst, op, pc, calls, frame, result, did, nextKey,
          nextCert, issued, rec0, stored, chKey, chFrame, chResult, caa>>

domainVars == <<dataF, pkF, lastCheckF, lastErrorF, certVersionF>>
storeVars == <<dataF, pkF, lastCheckF, lastErrorF, certVersionF, acctF,
               safeUntil, opLock, acctInFlight>>
clockVars == <<now, ticks>>
instVars == <<acmeInitialized, acmeInitializing, acmeInitPending, inst>>
idVars == <<nextKey, nextCert>>
histVars == <<issued, rec0, stored>>
chVars == <<chKey, chFrame, chResult>>
sideVars == <<chKey, chFrame, chResult, caa>>

\* ------------------------------------------------------------ the values
NoErr == [code |-> "none", time |-> 0]
NoData == [present |-> FALSE, status |-> "none", cert |-> 0, validTo |-> 0]
\* loadCertificateData's `false`
NoRec == [present |-> FALSE, status |-> "none", cert |-> 0, validTo |-> 0,
          lastCheck |-> 0, privateKey |-> 0, lastError |-> NoErr,
          certVersion |-> 0]
NoCert == [cert |-> 0, validTo |-> 0, at |-> 0]
NoAcct == [kid |-> 0, privateKey |-> 0]
NoLock == [holder |-> 0, until |-> 0]
NoFrame == [existingCertificateData |-> NoRec, currendData |-> NoData,
            privateKey |-> 0, cert |-> NoCert, err |-> "none",
            acmeAccount |-> NoAcct, waitFrom |-> 0, loaded |-> NoRec]
NoResult == [kind |-> "none", rec |-> NoRec, acct |-> NoAcct,
             outcome |-> "none", err |-> "none", at |-> 0]

\* the injected transforms (the '$' + hex transforms of the example)
EncTag == 100
\* an encryptor that hands the value back as it is
encryptFnPlain(v) == v
encryptFn(v) == IF v = 0 THEN v ELSE v + EncTag
decryptFn(v) == IF v > EncTag THEN v - EncTag ELSE v

\* --------------------------------------------------------------- helpers
SafeExists == safeUntil > now
LockFree == opLock.holder = 0 \/ now >= opLock.until
Holds(c) == opLock.holder = c /\ now < opLock.until
\* validTo > new Date(Date.now() + RENEW_AFTER_REMAINING)
Fresh(validTo, t) == validTo /= 0 /\ validTo > t + RENEW_AFTER_REMAINING
\* commands of one connection are applied in the order they were sent
RedisReady(c) == \A w \in acctInFlight : w.inst /= inst[c]

\* the hmget of loadCertificateData: data, lastCheck, privateKey, lastError
ReadFields ==
    [present |-> dataF.present, status |-> dataF.status, cert |-> dataF.cert,
     validTo |-> dataF.validTo, lastCheck |-> lastCheckF,
     privateKey |-> decryptFn(pkF), lastError |-> lastErrorF,
     certVersion |-> 0]
\* the record loadCertificateData returns from the two reads
Compose(fields, version) ==
    IF ~fields.present THEN NoRec ELSE [fields EXCEPT !.certVersion = version]

\* the value an invocation hands back
Returned(rec, outcome) ==
    [kind |-> IF rec.present THEN "record" ELSE "false", rec |-> rec,
     acct |-> NoAcct, outcome |-> outcome, err |-> "none", at |-> now]
Raised(code) ==
    [kind |-> "raised", rec |-> NoRec, acct |-> NoAcct, outcome |-> "raised",
     err |-> code, at |-> now]

\* ---------------------------------------------------- the challenge store
\* acme-challenge.js:9  DEFAULT_TTL = 2 * 3600 * 1000 ms
DEFAULT_TTL == 2 * 3600
\* the number the source holds for a duration: a count of milliseconds
MsPerSecond == 1000
Millis(t) == t * MsPerSecond
\* EXPIRE key n: the key is gone n seconds from now
ExpireAt(n) == now + n
\* keyAuthorization strings, 0 the empty one
KeyAuths == {0, 1, 2}
\* the key challenge:<D>:<T>: absent, or the decoded {acme: {token, secret:
\* {value, created, expires}}} with the store-side expiry (0: none)
NoChKey == [set |-> FALSE, value |-> 0, created |-> 0, expires |-> 0,
            until |-> 0]
NoChFrame == [keyAuthorization |-> 0, tokenData |-> NoChKey]
NoChResult == [kind |-> "none", value |-> 0, code |-> "none",
               responseCode |-> 0, cause |-> "none", at |-> 0]
ChExists == chKey.set /\ (chKey.until = 0 \/ now < chKey.until)
ChIdle ==
    /\ chKey = NoChKey
    /\ chFrame = [c \in Procs |-> NoChFrame]
    /\ chResult = [c \in Procs |-> NoChResult]

\* ------------------------------------------------- validateDomain: CAA
\* no CAA check running
NoCaa == [valid |-> TRUE, parts |-> 0, caaDomains |-> {}, answers |-> <<>>,
          i |-> 0, queried |-> {}, out |-> "idle", responseCode |-> 0]
CaaIdle == caa = NoCaa

\* ------------------------------------------------------------------ Init
\* The records an installation can hold before the coordinator runs: none,
\* the admin's {domain}, or a certificate issued earlier (version 1, key 1).
InitValidTo == {Now0, Now0 + 5 * Day, Now0 + 60 * Day}
InitStores0 == [data |-> NoData, pk |-> 0, lastCheck |-> 0, ver |-> 0]
InitStores ==
    {InitStores0,
     [data |-> [present |-> TRUE, status |-> "none", cert |-> 0, validTo |-> 0],
      pk |-> 0, lastCheck |-> 0, ver |-> 0]}
    \cup
    {[data |-> [present |-> TRUE, status |-> "valid", cert |-> 1, validTo |-> v],
      pk |-> encryptFn(1), lastCheck |-> v - CertLifetime, ver |-> 1]
        : v \in InitValidTo}

InitWith(stores) ==
    /\ \E s \in stores :
          /\ dataF = s.data
          /\ pkF = s.pk
          /\ lastCheckF = s.lastCheck
          /\ certVersionF = s.ver
          /\ rec0 = [validTo |-> s.data.validTo, certVersion |-> s.ver]
          /\ stored = IF s.data.cert = 0 THEN {}
                      ELSE {[cert |-> s.data.cert, certVersion |-> s.ver]}
    /\ lastErrorF = NoErr
    /\ acctF = NoAcct
    /\ safeUntil = 0
    /\ opLock = NoLock
    /\ acctInFlight = {}
    /\ now = Now0
    /\ ticks = 0
    /\ acmeInitialized = [i \in Insts |-> FALSE]
    /\ acmeInitializing = [i \in Insts |-> FALSE]
    /\ acmeInitPending = [i \in Insts |-> {}]
    /\ op = [c \in Procs |-> "idle"]
    /\ pc = [c \in Procs |-> "idle"]
    /\ calls = [c \in Procs |-> 0]
    /\ frame = [c \in Procs |-> NoFrame]
    /\ result = [c \in Procs |-> NoResult]
    /\ did = [c \in Procs |-> {}]
    /\ nextKey = 2
    /\ nextCert = 2
    /\ issued = 0

\* every caller is a process of its own, with its own Certs instance
Init ==
    /\ InitWith(InitStores)
    /\ inst = [c \in Procs |-> c]
    /\ ChIdle
    /\ CaaIdle

\* ------------------------------------------------------------- the clock
Tick ==
    /\ ticks < MaxTicks
    /\ \E d \in TickSteps : now' = now + d
    /\ ticks' = ticks + 1
    /\ UNCHANGED <<storeVars, instVars, op, pc, calls, frame, result, did,
                   idVars, histVars>>
    /\ UNCHANGED sideVars

\* ------------------------------------------------------- entering a call
Start(c, name, first) ==
    /\ pc[c] \in {"idle", "done"}
    /\ calls[c] < MaxCalls
    /\ op' = [op EXCEPT ![c] = name]
    /\ pc' = [pc EXCEPT ![c] = first]
    /\ calls' = [calls EXCEPT ![c] = @ + 1]
    /\ frame' = [frame EXCEPT ![c] = NoFrame]
    /\ result' = [result EXCEPT ![c] = NoResult]
    /\ did' = [did EXCEPT ![c] = {}]
    /\ UNCHANGED <<storeVars, clockVars, instVars, idVars, histVars>>
    /\ UNCHANGED sideVars

StartAcquireCert(c) == Start(c, "acquireCert", "ac_load1")
StartGetCertificate(c) == Start(c, "getCertificate", "gc_load1")
StartGetAcmeAccount(c) == Start(c, "getAcmeAccount", "ga_ensure")

\* --------------------------------------------------- loadCertificateData
\* certs.js:225  settings.get([data, lastCheck, privateKey, lastError])
LoadFields(c) ==
    /\ pc[c] \in {"ac_load1", "gc_load1", "ac_reload1"}
    /\ RedisReady(c)
    /\ frame' = [frame EXCEPT ![c].loaded = ReadFields]
    /\ pc' = [pc EXCEPT ![c] = CASE pc[c] = "ac_load1" -> "ac_load2"
                                 [] pc[c] = "gc_load1" -> "gc_load2"
                                 [] OTHER -> "ac_reload2"]
    /\ UNCHANGED <<storeVars, clockVars, instVars, op, calls, result, did,
                   idVars, histVars>>
    /\ UNCHANGED sideVars

\* certs.js:226-237  hget certVersion, then the record (or false), in
\* acquireCert's first load (certs.js:292)
LoadExisting(c) ==
    /\ pc[c] = "ac_load2"
    /\ RedisReady(c)
    /\ frame' = [frame EXCEPT ![c].existingCertificateData =
                                  Compose(frame[c].loaded, certVersionF),
                              ![c].loaded = NoRec]
    /\ pc' = [pc EXCEPT ![c] = "ac_safe"]
    /\ UNCHANGED <<storeVars, clockVars, instVars, op, calls, result, did,
                   idVars, histVars>>
    /\ UNCHANGED sideVars

\* getCertificate with the boundary moved: a record is served only while
\* validTo is later than now
GetCertificateCheckStrict(c) ==
    /\ pc[c] = "gc_load2"
    /\ RedisReady(c)
    /\ LET certificateData == Compose(frame[c].loaded, certVersionF) IN
         IF /\ certificateData.present
            /\ certificateData.status = "valid"
            /\ certificateData.validTo /= 0
            /\ certificateData.validTo > now
         THEN /\ result' = [result EXCEPT ![c] =
                               Returned(certificateData, "cachehit")]
              /\ pc' = [pc EXCEPT ![c] = "done"]
              /\ frame' = [frame EXCEPT ![c] = NoFrame]
         ELSE /\ pc' = [pc EXCEPT ![c] = "ac_load1"]
              /\ frame' = [frame EXCEPT ![c] = NoFrame]
              /\ UNCHANGED result
    /\ UNCHANGED <<storeVars, clockVars, instVars, op, calls, did, idVars,
                   histVars>>
    /\ UNCHANGED sideVars

\* certs.js:471-479  getCertificate: the load's second read and the check
GetCertificateCheck(c) ==
    /\ pc[c] = "gc_load2"
    /\ RedisReady(c)
    /\ LET certificateData == Compose(frame[c].loaded, certVersionF) IN
         IF /\ certificateData.present
            /\ certificateData.status = "valid"
            /\ certificateData.validTo /= 0
            /\ certificateData.validTo >= now
         THEN /\ result' = [result EXCEPT ![c] =
                               Returned(certificateData, "cachehit")]
              /\ pc' = [pc EXCEPT ![c] = "done"]
              /\ frame' = [frame EXCEPT ![c] = NoFrame]
         ELSE /\ pc' = [pc EXCEPT ![c] = "ac_load1"]
              /\ frame' = [frame EXCEPT ![c] = NoFrame]
              /\ UNCHANGED result
    /\ UNCHANGED <<storeVars, clockVars, instVars, op, calls, did, idVars,
                   histVars>>
    /\ UNCHANGED sideVars

\* certs.js:378  return await this.loadCertificateData(domain)
LoadIssued(c) ==
    /\ pc[c] = "ac_reload2"
    /\ RedisReady(c)
    /\ result' = [result EXCEPT ![c] =
                     Returned(Compose(frame[c].loaded, certVersionF), "issued")]
    /\ frame' = [frame EXCEPT ![c].loaded = NoRec]
    /\ pc' = [pc EXCEPT ![c] = "ac_release"]
    /\ UNCHANGED <<storeVars, clockVars, instVars, op, calls, did, idVars,
                   histVars>>
    /\ UNCHANGED sideVars

\* ----------------------------------------------------------- acquireCert
\* an exit taken before lock:op:<D> is held (certs.js:299, 308, 313)
ReturnUnlocked(c, outcome) ==
    /\ result' = [result EXCEPT ![c] =
                     Returned(frame[c].existingCertificateData, outcome)]
    /\ frame' = [frame EXCEPT ![c] = NoFrame]
    /\ pc' = [pc EXCEPT ![c] = "done"]

\* the fail-safe check without its early return: the key is looked up and the
\* invocation goes on whatever the answer
FailSafeCheckNoReturn(c) ==
    /\ pc[c] = "ac_safe"
    /\ RedisReady(c)
    /\ pc' = [pc EXCEPT ![c] = "ac_validate"]
    /\ UNCHANGED <<frame, result>>
    /\ UNCHANGED <<storeVars, clockVars, instVars, op, calls, did, idVars,
                   histVars>>
    /\ UNCHANGED sideVars

\* certs.js:294-300  await this.redis.exists(domainSafeLockKey)
FailSafeCheck(c) ==
    /\ pc[c] = "ac_safe"
    /\ RedisReady(c)
    /\ IF SafeExists
       THEN ReturnUnlocked(c, "blocked")
       ELSE /\ pc' = [pc EXCEPT ![c] = "ac_validate"]
            /\ UNCHANGED <<frame, result>>
    /\ UNCHANGED <<storeVars, clockVars, instVars, op, calls, did, idVars,
                   histVars>>
    /\ UNCHANGED sideVars

\* what validateDomain finds for D: certs.js:173-216
ValidationOutcomes == {"ok", "invalid_domain", "caa_mismatch"}

\* validateDomain called inside the try: its error goes to the catch
ValidateDomainInTry(c) ==
    /\ pc[c] = "ac_validate"
    /\ did' = [did EXCEPT ![c] = @ \cup {"validate"}]
    /\ \E v \in ValidationOutcomes :
          IF v = "ok"
          THEN /\ pc' = [pc EXCEPT ![c] = "ac_lock"]
               /\ frame' = [frame EXCEPT ![c].waitFrom = now]
          ELSE /\ pc' = [pc EXCEPT ![c] = "ac_catch_safe"]
               /\ frame' = [frame EXCEPT ![c].err = v]
    /\ UNCHANGED result
    /\ UNCHANGED <<storeVars, clockVars, instVars, op, calls, idVars,
                   histVars>>
    /\ UNCHANGED sideVars

\* certs.js:302-309  validateDomain throws: log, return the existing record
ValidateDomain(c) ==
    /\ pc[c] = "ac_validate"
    /\ did' = [did EXCEPT ![c] = @ \cup {"validate"}]
    /\ \E v \in ValidationOutcomes :
          IF v = "ok"
          THEN /\ pc' = [pc EXCEPT ![c] = "ac_lock"]
               /\ frame' = [frame EXCEPT ![c].waitFrom = now]
               /\ UNCHANGED result
          ELSE ReturnUnlocked(c, "invalid")
    /\ UNCHANGED <<storeVars, clockVars, instVars, op, calls, idVars,
                   histVars>>
    /\ UNCHANGED sideVars

\* certs.js:311  waitAcquireLock succeeds: the key is free or its lease ran out
AcquireLock(c) ==
    /\ pc[c] = "ac_lock"
    /\ RedisReady(c)
    /\ LockFree
    /\ opLock' = [holder |-> c, until |-> now + LOCK_TTL]
    /\ did' = [did EXCEPT ![c] = @ \cup {"lock"}]
    /\ pc' = [pc EXCEPT ![c] = "ac_check"]
    /\ UNCHANGED <<domainVars, acctF, safeUntil, acctInFlight, clockVars,
                   instVars, op, calls, frame, result, idVars, histVars>>
    /\ UNCHANGED sideVars

\* certs.js:311-314  the wait budget ran out: return the existing record
LockTimeout(c) ==
    /\ pc[c] = "ac_lock"
    /\ ~LockFree
    /\ now >= frame[c].waitFrom + LOCK_WAIT
    /\ ReturnUnlocked(c, "nolock")
    /\ UNCHANGED <<storeVars, clockVars, instVars, op, calls, did, idVars,
                   histVars>>
    /\ UNCHANGED sideVars

\* certs.js:316-329  the renewal check on existingCertificateData, then the
\* key: the record's own, or a new one (generateKey)
RenewCheck(c) ==
    /\ pc[c] = "ac_check"
    /\ LET e == frame[c].existingCertificateData IN
         IF Fresh(e.validTo, now)
         THEN /\ result' = [result EXCEPT ![c] = Returned(e, "norenew")]
              /\ pc' = [pc EXCEPT ![c] = "ac_release"]
              /\ UNCHANGED <<frame, nextKey>>
         ELSE IF e.privateKey = 0
         THEN /\ frame' = [frame EXCEPT ![c].privateKey = nextKey]
              /\ nextKey' = nextKey + 1
              /\ pc' = [pc EXCEPT ![c] = "ac_pend_get"]
              /\ UNCHANGED result
         ELSE /\ frame' = [frame EXCEPT ![c].privateKey = e.privateKey]
              /\ pc' = [pc EXCEPT ![c] = "ga_ensure"]
              /\ UNCHANGED <<result, nextKey>>
    /\ UNCHANGED <<storeVars, clockVars, instVars, op, calls, did, nextCert,
                   histVars>>
    /\ UNCHANGED sideVars

\* ---------------------------------------------------- setCertificateData
\* certs.js:272-275  settings.get(dataKey), for the merge of the updates
ReadCurrent(c) ==
    /\ pc[c] \in {"ac_pend_get", "ac_store_get"}
    /\ RedisReady(c)
    /\ frame' = [frame EXCEPT ![c].currendData = dataF]
    /\ pc' = [pc EXCEPT ![c] = IF pc[c] = "ac_pend_get" THEN "ac_pend_set"
                               ELSE "ac_store_incr"]
    /\ UNCHANGED <<storeVars, clockVars, instVars, op, calls, result, did,
                   idVars, histVars>>
    /\ UNCHANGED sideVars

\* Object.assign(currendData || {}, updates): certs.js:274
Merge(cur, status, cert, validTo) ==
    [present |-> TRUE, status |-> status, cert |-> cert, validTo |-> validTo]

\* certs.js:328, 281-283  {domain, privateKey, status: 'pending',
\* lastError: null} in one hmset; a failed write throws into the catch
WritePending(c) ==
    /\ pc[c] = "ac_pend_set"
    /\ RedisReady(c)
    /\ \E ok \in BOOLEAN :
          IF ok
          THEN /\ dataF' = Merge(frame[c].currendData, "pending",
                                 frame[c].currendData.cert,
                                 frame[c].currendData.validTo)
               /\ pkF' = encryptFn(frame[c].privateKey)
               /\ lastErrorF' = NoErr
               /\ did' = [did EXCEPT ![c] = @ \cup {"write"}]
               /\ pc' = [pc EXCEPT ![c] = "ga_ensure"]
               /\ UNCHANGED frame
          ELSE /\ frame' = [frame EXCEPT ![c].err = "store"]
               /\ pc' = [pc EXCEPT ![c] = "ac_catch_safe"]
               /\ UNCHANGED <<dataF, pkF, lastErrorF, did>>
    /\ UNCHANGED <<lastCheckF, certVersionF, acctF, safeUntil, opLock,
                   acctInFlight, clockVars, instVars, op, calls, result,
                   idVars, histVars>>
    /\ UNCHANGED sideVars

\* -------------------------------------------- ensureAcme, getAcmeAccount
InAcquireCert(c) == op[c] \in {"acquireCert", "getCertificate"}

\* where an error of getAcmeAccount lands: in acquireCert's catch
\* (certs.js:379), or at the caller of getAcmeAccount
ThrownPc(d) == IF InAcquireCert(d) THEN "ac_catch_safe" ELSE "done"
ThrownFrame(d, code) ==
    IF InAcquireCert(d) THEN [frame[d] EXCEPT !.err = code] ELSE NoFrame
ThrownResult(d, code) ==
    IF InAcquireCert(d) THEN result[d] ELSE Raised(code)

\* certs.js:92-103  initialized: go on; initializing: queue; else acme.init
EnsureAcme(c) ==
    /\ pc[c] = "ga_ensure"
    /\ LET i == inst[c] IN
         IF acmeInitialized[i]
         THEN /\ pc' = [pc EXCEPT ![c] = "ga_get"]
              /\ UNCHANGED acmeInitPending
         ELSE IF acmeInitializing[i]
         THEN /\ acmeInitPending' = [acmeInitPending EXCEPT ![i] = @ \cup {c}]
              /\ pc' = [pc EXCEPT ![c] = "ga_queued"]
         ELSE /\ pc' = [pc EXCEPT ![c] = "ga_init"]
              /\ UNCHANGED acmeInitPending
    /\ UNCHANGED <<storeVars, clockVars, acmeInitialized, acmeInitializing,
                   inst, op, calls, frame, result, did, idVars, histVars>>
    /\ UNCHANGED sideVars

\* certs.js:102-122  acme.init resolved or rejected; the queued callers get
\* the same; finally acmeInitializing = false
AcmeInit(c) ==
    /\ pc[c] = "ga_init"
    /\ LET i == inst[c]
           woken == {d \in acmeInitPending[i] : pc[d] = "ga_queued"} \cup {c}
       IN
         /\ acmeInitializing' = [acmeInitializing EXCEPT ![i] = FALSE]
         /\ \E ok \in BOOLEAN :
               IF ok
               THEN /\ acmeInitialized' = [acmeInitialized EXCEPT ![i] = TRUE]
                    /\ pc' = [d \in Procs |->
                                 IF d \in woken THEN "ga_get" ELSE pc[d]]
                    /\ UNCHANGED <<frame, result>>
               ELSE /\ pc' = [d \in Procs |->
                                 IF d \in woken THEN ThrownPc(d) ELSE pc[d]]
                    /\ frame' = [d \in Procs |->
                                    IF d \in woken THEN ThrownFrame(d, "init")
                                    ELSE frame[d]]
                    /\ result' = [d \in Procs |->
                                     IF d \in woken THEN ThrownResult(d, "init")
                                     ELSE result[d]]
                    /\ UNCHANGED acmeInitialized
    /\ UNCHANGED <<storeVars, clockVars, acmeInitPending, inst, op, calls,
                   did, idVars, histVars>>
    /\ UNCHANGED sideVars

\* getAcmeAccount hands back `a`: to acquireCert (certs.js:338-342, a falsy
\* account returns false) or to its caller
AccountPc(c, a) ==
    IF InAcquireCert(c)
    THEN IF a = NoAcct THEN "ac_release" ELSE "ac_create"
    ELSE "done"
AccountFrame(c, a) ==
    IF InAcquireCert(c) THEN [frame[c] EXCEPT !.acmeAccount = a] ELSE NoFrame
AccountResult(c, a) ==
    IF InAcquireCert(c)
    THEN IF a = NoAcct
         THEN [kind |-> "false", rec |-> NoRec, acct |-> NoAcct,
               outcome |-> "noaccount", err |-> "none", at |-> now]
         ELSE result[c]
    ELSE [kind |-> "account", rec |-> NoRec, acct |-> a,
          outcome |-> "account", err |-> "none", at |-> now]

\* getAcmeAccount without the lookup of the stored account: every call
\* provisions
ReadAccountSkipped(c) ==
    /\ pc[c] = "ga_get"
    /\ RedisReady(c)
    /\ pc' = [pc EXCEPT ![c] = "ga_create"]
    /\ UNCHANGED <<frame, result>>
    /\ UNCHANGED <<storeVars, clockVars, instVars, op, calls, did, idVars,
                   histVars>>
    /\ UNCHANGED sideVars

\* certs.js:128-138  the stored account, its privateKey decrypted
ReadAccount(c) ==
    /\ pc[c] = "ga_get"
    /\ RedisReady(c)
    /\ IF acctF /= NoAcct
       THEN LET a == [acctF EXCEPT !.privateKey = decryptFn(@)] IN
              /\ pc' = [pc EXCEPT ![c] = AccountPc(c, a)]
              /\ frame' = [frame EXCEPT ![c] = AccountFrame(c, a)]
              /\ result' = [result EXCEPT ![c] = AccountResult(c, a)]
       ELSE /\ pc' = [pc EXCEPT ![c] = "ga_create"]
            /\ UNCHANGED <<frame, result>>
    /\ UNCHANGED <<storeVars, clockVars, instVars, op, calls, did, idVars,
                   histVars>>
    /\ UNCHANGED sideVars

\* certs.js:140-170  generateKey, accounts.create, then settings.set that
\* is not awaited: the write is sent and the call returns
CreateAccount(c) ==
    /\ pc[c] = "ga_create"
    /\ \E ok \in BOOLEAN :
          IF ok
          THEN LET a == [kid |-> nextKey, privateKey |-> nextKey] IN
                 /\ nextKey' = nextKey + 1
                 /\ acctInFlight' = acctInFlight \cup
                        {[inst |-> inst[c], kid |-> a.kid,
                          privateKey |-> encryptFn(a.privateKey)]}
                 /\ pc' = [pc EXCEPT ![c] = AccountPc(c, a)]
                 /\ frame' = [frame EXCEPT ![c] = AccountFrame(c, a)]
                 /\ result' = [result EXCEPT ![c] = AccountResult(c, a)]
          ELSE /\ pc' = [pc EXCEPT ![c] = ThrownPc(c)]
               /\ frame' = [frame EXCEPT ![c] = ThrownFrame(c, "account")]
               /\ result' = [result EXCEPT ![c] = ThrownResult(c, "account")]
               /\ UNCHANGED <<nextKey, acctInFlight>>
    /\ UNCHANGED <<domainVars, acctF, safeUntil, opLock, clockVars, instVars,
                   op, calls, did, nextCert, histVars>>
    /\ UNCHANGED sideVars

\* settings.js (part_001:23-42)  the hmset of the account reaches the store
AccountWriteLands ==
    \E w \in acctInFlight :
        /\ acctF' = [kid |-> w.kid, privateKey |-> w.privateKey]
        /\ acctInFlight' = acctInFlight \ {w}
        /\ UNCHANGED <<domainVars, safeUntil, opLock, clockVars, instVars, op,
                       pc, calls, frame, result, did, idVars, histVars>>
        /\ UNCHANGED sideVars

\* the hmset fails; nobody awaits the promise (certs.js:160)
AccountWriteFails ==
    \E w \in acctInFlight :
        /\ acctInFlight' = acctInFlight \ {w}
        /\ UNCHANGED <<domainVars, acctF, safeUntil, opLock, clockVars,
                       instVars, op, pc, calls, frame, result, did, idVars,
                       histVars>>
        /\ UNCHANGED sideVars

\* ------------------------------------------- acquireCert: the ACME order
CreateOutcomes == {"ok", "empty", "raise"}

\* certs.js:357-374  acme.certificates.create: a certificate, an empty
\* response (return the existing record), or an error
CertificatesCreate(c) ==
    /\ pc[c] = "ac_create"
    /\ did' = [did EXCEPT ![c] = @ \cup {"acme"}]
    /\ \E r \in CreateOutcomes :
          CASE r = "ok" ->
                    /\ frame' = [frame EXCEPT ![c].cert =
                                    [cert |-> nextCert,
                                     validTo |-> now + CertLifetime,
                                     at |-> now]]
                    /\ nextCert' = nextCert + 1
                    /\ pc' = [pc EXCEPT ![c] = "ac_store_get"]
                    /\ UNCHANGED result
               [] r = "empty" ->
                    /\ result' = [result EXCEPT ![c] =
                          Returned(frame[c].existingCertificateData, "empty")]
                    /\ pc' = [pc EXCEPT ![c] = "ac_release"]
                    /\ UNCHANGED <<frame, nextCert>>
               [] OTHER ->
                    /\ frame' = [frame EXCEPT ![c].err = "acme"]
                    /\ pc' = [pc EXCEPT ![c] = "ac_catch_safe"]
                    /\ UNCHANGED <<result, nextCert>>
    /\ UNCHANGED <<storeVars, clockVars, instVars, op, calls, nextKey,
                   histVars>>
    /\ UNCHANGED sideVars

\* certs.js:277-279  hincrby certVersion 1, before the record is written
IncrVersion(c) ==
    /\ pc[c] = "ac_store_incr"
    /\ RedisReady(c)
    /\ certVersionF' = certVersionF + 1
    /\ did' = [did EXCEPT ![c] = @ \cup {"write"}]
    /\ pc' = [pc EXCEPT ![c] = "ac_store_set"]
    /\ UNCHANGED <<dataF, pkF, lastCheckF, lastErrorF, acctF, safeUntil,
                   opLock, acctInFlight, clockVars, instVars, op, calls,
                   frame, result, idVars, histVars>>
    /\ UNCHANGED sideVars

\* certs.js:368-376, 281-283  the parsed certificate, cert, lastCheck,
\* lastError: null and status: 'valid' in one hmset; a failed write throws
WriteValid(c) ==
    /\ pc[c] = "ac_store_set"
    /\ RedisReady(c)
    /\ \E ok \in BOOLEAN :
          IF ok
          THEN /\ dataF' = Merge(frame[c].currendData, "valid",
                                 frame[c].cert.cert, frame[c].cert.validTo)
               /\ lastCheckF' = frame[c].cert.at
               /\ lastErrorF' = NoErr
               /\ issued' = issued + 1
               /\ stored' = stored \cup {[cert |-> frame[c].cert.cert,
                                           certVersion |-> certVersionF]}
               /\ pc' = [pc EXCEPT ![c] = "ac_reload1"]
               /\ UNCHANGED frame
          ELSE /\ frame' = [frame EXCEPT ![c].err = "store"]
               /\ pc' = [pc EXCEPT ![c] = "ac_catch_safe"]
               /\ UNCHANGED <<dataF, lastCheckF, lastErrorF, issued, stored>>
    /\ UNCHANGED <<pkF, certVersionF, acctF, safeUntil, opLock, acctInFlight,
                   clockVars, instVars, op, calls, result, did, idVars,
                   rec0>>
    /\ UNCHANGED sideVars

\* ------------------------------------------------- acquireCert: the catch
\* certs.js:402-407  the existing record if it has a cert, else throw err
CatchResult(c) ==
    IF /\ frame[c].existingCertificateData.present
       /\ frame[c].existingCertificateData.cert /= 0
    THEN [Returned(frame[c].existingCertificateData, "suppressed")
             EXCEPT !.err = frame[c].err]
    ELSE Raised(frame[c].err)

\* the catch without the fail-safe pipeline
CatchSetSafeSkipped(c) ==
    /\ pc[c] = "ac_catch_safe"
    /\ RedisReady(c)
    /\ IF frame[c].existingCertificateData.present
       THEN /\ pc' = [pc EXCEPT ![c] = "ac_catch_err"]
            /\ UNCHANGED result
       ELSE /\ pc' = [pc EXCEPT ![c] = "ac_release"]
            /\ result' = [result EXCEPT ![c] = CatchResult(c)]
    /\ UNCHANGED <<domainVars, acctF, safeUntil, opLock, acctInFlight,
                   clockVars, instVars, op, calls, frame, did, idVars,
                   histVars>>
    /\ UNCHANGED sideVars

\* certs.js:380-388  multi().set(lock:safe, 1).expire(lock:safe, TTL).exec()
CatchSetSafe(c) ==
    /\ pc[c] = "ac_catch_safe"
    /\ RedisReady(c)
    /\ safeUntil' = now + BLOCK_RENEW_AFTER_ERROR_TTL
    /\ IF frame[c].existingCertificateData.present
       THEN /\ pc' = [pc EXCEPT ![c] = "ac_catch_err"]
            /\ UNCHANGED result
       ELSE /\ pc' = [pc EXCEPT ![c] = "ac_release"]
            /\ result' = [result EXCEPT ![c] = CatchResult(c)]
    /\ UNCHANGED <<domainVars, acctF, opLock, acctInFlight, clockVars,
                   instVars, op, calls, frame, did, idVars, histVars>>
    /\ UNCHANGED sideVars

\* certs.js:388-407  lastError = {err, code, time} in one hmset, a failed
\* write is logged; then the result
CatchLastError(c) ==
    /\ pc[c] = "ac_catch_err"
    /\ RedisReady(c)
    /\ \E ok \in BOOLEAN :
          IF ok
          THEN /\ lastErrorF' = [code |-> frame[c].err, time |-> now]
               /\ did' = [did EXCEPT ![c] = @ \cup {"lastError", "write"}]
          ELSE /\ did' = [did EXCEPT ![c] = @ \cup {"lastError"}]
               /\ UNCHANGED lastErrorF
    /\ result' = [result EXCEPT ![c] = CatchResult(c)]
    /\ pc' = [pc EXCEPT ![c] = "ac_release"]
    /\ UNCHANGED <<dataF, pkF, lastCheckF, certVersionF, acctF, safeUntil,
                   opLock, acctInFlight, clockVars, instVars, op, calls,
                   frame, idVars, histVars>>
    /\ UNCHANGED sideVars

\* the invocation completing without the finally block: the lease is left
\* to run out
ReleaseLockSkipped(c) ==
    /\ pc[c] = "ac_release"
    /\ RedisReady(c)
    /\ result' = [result EXCEPT ![c].at = now]
    /\ frame' = [frame EXCEPT ![c] = NoFrame]
    /\ pc' = [pc EXCEPT ![c] = "done"]
    /\ UNCHANGED <<domainVars, acctF, safeUntil, opLock, acctInFlight,
                   clockVars, instVars, op, calls, did, idVars, histVars>>
    /\ UNCHANGED sideVars

\* certs.js:408-414  finally: releaseLock(lock), which gives up only the
\* lease of this invocation
ReleaseLock(c) ==
    /\ pc[c] = "ac_release"
    /\ RedisReady(c)
    /\ opLock' = IF opLock.holder = c THEN NoLock ELSE opLock
    /\ result' = [result EXCEPT ![c].at = now]
    /\ frame' = [frame EXCEPT ![c] = NoFrame]
    /\ pc' = [pc EXCEPT ![c] = "done"]
    /\ UNCHANGED <<domainVars, acctF, safeUntil, acctInFlight, clockVars,
                   instVars, op, calls, did, idVars, histVars>>
    /\ UNCHANGED sideVars

\* ------------------------------------------------------------------ Next
Step(c) ==
    \/ StartAcquireCert(c)
    \/ StartGetCertificate(c)
    \/ LoadFields(c)
    \/ LoadExisting(c)
    \/ GetCertificateCheck(c)
    \/ LoadIssued(c)
    \/ FailSafeCheck(c)
    \/ ValidateDomain(c)
    \/ AcquireLock(c)
    \/ LockTimeout(c)
    \/ RenewCheck(c)
    \/ ReadCurrent(c)
    \/ WritePending(c)
    \/ EnsureAcme(c)
    \/ AcmeInit(c)
    \/ ReadAccount(c)
    \/ CreateAccount(c)
    \/ CertificatesCreate(c)
    \/ IncrVersion(c)
    \/ WriteValid(c)
    \/ CatchSetSafe(c)
    \/ CatchLastError(c)
    \/ ReleaseLock(c)

Next ==
    \/ \E c \in Workers : Step(c)
    \/ AccountWriteLands
    \/ AccountWriteFails
    \/ Tick

Spec == Init /\ [][Next]_vars

\* ------------------------------------- getAcmeAccount on one instance
\* the callers are concurrent calls of getAcmeAccount on one Certs instance
AcmeInit0 ==
    /\ InitWith({InitStores0})
    /\ inst = [c \in Procs |-> 1]
    /\ ChIdle
    /\ CaaIdle

AcmeNext ==
    \/ \E c \in Procs :
          \/ StartGetAcmeAccount(c)
          \/ EnsureAcme(c)
          \/ AcmeInit(c)
          \/ ReadAccount(c)
          \/ CreateAccount(c)
    \/ AccountWriteLands
    \/ AccountWriteFails

AcmeSpec == AcmeInit0 /\ [][AcmeNext]_vars

\* ========================================================= validateDomain
\* labels of the longest domain name checked
MaxParts == 3
\* the issue values of CAA records; "" is a record without an issue tag
\* (normalizeDomain(undefined), tools.js:9-10)
Issuers == {"letsencrypt.org", "digicert.com", ""}
\* what resolveCaa(subdomain) gives: an error, or a list of records
CaaAnswers ==
    {[err |-> TRUE, recs |-> {}]} \cup
    {[err |-> FALSE, recs |-> r] : r \in SUBSET Issuers}
\* the suffixes the loop visits, parts.slice(i) for i < parts.length - 1
Suffixes(parts) == 0 .. (parts - 2)
\* acmeOptions.caaDomains after map(normalizeDomain).filter(d => d)
CaaConfigs == {{}, {"letsencrypt.org"}}
CaaInputs ==
    {[valid |-> v, parts |-> n, caaDomains |-> d, answers |-> a, i |-> 0,
      queried |-> {}, out |-> "start", responseCode |-> 0] :
        v \in BOOLEAN, n \in 2 .. MaxParts, d \in CaaConfigs,
        a \in [Suffixes(MaxParts) -> CaaAnswers]}

\* certs.js:175-191  the Joi check of the name, then the CAA walk only if
\* caaDomains is not empty
CaaBegin ==
    /\ caa.out = "start"
    /\ caa' = IF ~caa.valid
              THEN [caa EXCEPT !.out = "invalid_domain", !.responseCode = 400]
              ELSE IF caa.caaDomains = {}
                   THEN [caa EXCEPT !.out = "pass"]
                   ELSE [caa EXCEPT !.out = "walk"]
    /\ UNCHANGED <<storeVars, clockVars, instVars, op, pc, calls, frame,
                   result, did, idVars, histVars, chVars>>

\* the walk that goes on after a suffix whose records list the CA
CaaResolveNoBreak ==
    /\ caa.out = "walk"
    /\ caa.i \in Suffixes(caa.parts)
    /\ LET a == caa.answers[caa.i]
           caaRes == IF a.err THEN {} ELSE a.recs
       IN caa' = IF caaRes /= {} /\ caaRes \cap caa.caaDomains = {}
                 THEN [caa EXCEPT !.out = "caa_mismatch",
                                  !.responseCode = 403,
                                  !.queried = @ \cup {caa.i}]
                 ELSE [caa EXCEPT !.i = @ + 1, !.queried = @ \cup {caa.i}]
    /\ UNCHANGED <<storeVars, clockVars, instVars, op, pc, calls, frame,
                   result, did, idVars, histVars, chVars>>

\* certs.js:193-212  one turn of the loop: resolveCaa(subdomain), an error
\* leaves caaRes undefined; records none of which lists a configured CA
\* throw caa_mismatch, records one of which does end the walk
CaaResolve ==
    /\ caa.out = "walk"
    /\ caa.i \in Suffixes(caa.parts)
    /\ LET a == caa.answers[caa.i]
           caaRes == IF a.err THEN {} ELSE a.recs
       IN caa' = IF caaRes /= {} /\ caaRes \cap caa.caaDomains = {}
                 THEN [caa EXCEPT !.out = "caa_mismatch",
                                  !.responseCode = 403,
                                  !.queried = @ \cup {caa.i}]
                 ELSE IF caaRes /= {}
                      THEN [caa EXCEPT !.out = "pass",
                                       !.queried = @ \cup {caa.i}]
                      ELSE [caa EXCEPT !.i = @ + 1,
                                       !.queried = @ \cup {caa.i}]
    /\ UNCHANGED <<storeVars, clockVars, instVars, op, pc, calls, frame,
                   result, did, idVars, histVars, chVars>>

\* certs.js:193, 215  the loop ran out of suffixes: return true
CaaReturn ==
    /\ caa.out = "walk"
    /\ caa.i \notin Suffixes(caa.parts)
    /\ caa' = [caa EXCEPT !.out = "pass"]
    /\ UNCHANGED <<storeVars, clockVars, instVars, op, pc, calls, frame,
                   result, did, idVars, histVars, chVars>>

CaaInit ==
    /\ InitWith({InitStores0})
    /\ inst = [c \in Procs |-> c]
    /\ ChIdle
    /\ caa \in CaaInputs

CaaNext ==
    \/ CaaBegin
    \/ CaaResolve
    \/ CaaReturn

CaaSpec == CaaInit /\ [][CaaNext]_vars

\* ========================================================= challenge store
\* what an operation of the challenge store hands back; routeHandler
\* (certs.js:417-469) wraps what challenge.get hands back
ChValue(kind, v) ==
    [kind |-> kind, value |-> v, code |-> "none", responseCode |-> 0,
     cause |-> "none", at |-> now]
ChError(code, responseCode, cause) ==
    [kind |-> "raised", value |-> 0, code |-> code,
     responseCode |-> responseCode, cause |-> cause, at |-> now]
\* certs.js:440-469  the catch builds resErr and sets code on err, the error
\* it caught; a null or a challenge without keyAuthorization is not found
RouteHandlerResult(r) ==
    IF r.kind = "raised"
    THEN ChError("none", 500, r.cause)
    ELSE IF r.kind = "null" \/ r.value = 0
         THEN ChError("ChallengeNotFound", 404, "absent")
         ELSE ChValue("string", r.value)
Deliver(c, r) == IF op[c] = "routeHandler" THEN RouteHandlerResult(r) ELSE r

ChStart(c, name, first, ka) ==
    /\ pc[c] \in {"idle", "done"}
    /\ calls[c] < MaxCalls
    /\ op' = [op EXCEPT ![c] = name]
    /\ pc' = [pc EXCEPT ![c] = first]
    /\ calls' = [calls EXCEPT ![c] = @ + 1]
    /\ chFrame' = [chFrame EXCEPT ![c] = [NoChFrame EXCEPT !.keyAuthorization = ka]]
    /\ chResult' = [chResult EXCEPT ![c] = NoChResult]
    /\ UNCHANGED <<storeVars, clockVars, instVars, frame, result, did, idVars,
                   histVars, chKey, caa>>

StartChallengeSet(c) ==
    \E ka \in KeyAuths : ChStart(c, "challenge.set", "cs_has", ka)
StartChallengeGet(c) == ChStart(c, "challenge.get", "cg_read", 0)
StartChallengeRemove(c) == ChStart(c, "challenge.remove", "cr_del", 0)
StartRouteHandler(c) == ChStart(c, "routeHandler", "rh_validate", 0)

\* the clock of the challenge store: up to the record's expiry, just past
\* it, and up to the expiry the store holds for the key
ChTickSteps == {DEFAULT_TTL, DEFAULT_TTL + 1, Millis(DEFAULT_TTL)}
ChTick ==
    /\ ticks < MaxTicks
    /\ \E d \in ChTickSteps : now' = now + d
    /\ ticks' = ticks + 1
    /\ UNCHANGED <<storeVars, instVars, op, pc, calls, frame, result, did,
                   idVars, histVars, sideVars>>

ChDone(c, r) ==
    /\ chResult' = [chResult EXCEPT ![c] = Deliver(c, r)]
    /\ pc' = [pc EXCEPT ![c] = "done"]

\* acme-challenge.js:79-84  settings.has(domain:<D>:data), else an Error
\* with responseCode 404
SetHas(c) ==
    /\ pc[c] = "cs_has"
    /\ IF dataF.present
       THEN /\ pc' = [pc EXCEPT ![c] = "cs_put"]
            /\ UNCHANGED chResult
       ELSE ChDone(c, ChError("none", 404, "unknown_domain"))
    /\ UNCHANGED <<storeVars, clockVars, instVars, op, calls, frame, result,
                   did, idVars, histVars, chKey, chFrame, caa>>

\* what multi().set(..).expire(..).exec() reports: acme-challenge.js:56-63
PipelineOutcomes == {"ok", "set_err", "expire_err"}

\* acme-challenge.js:53-66, 86-97  set(keyName, encoded) and
\* expire(keyName, this.ttl) in one MULTI; either command's error is thrown
SetData(c) ==
    /\ pc[c] = "cs_put"
    /\ \E o \in PipelineOutcomes :
          /\ chKey' =
                CASE o = "ok" ->
                       [set |-> TRUE, value |-> chFrame[c].keyAuthorization,
                        created |-> now, expires |-> now + DEFAULT_TTL,
                        until |-> ExpireAt(Millis(DEFAULT_TTL))]
                  [] o = "expire_err" ->
                       [set |-> TRUE, value |-> chFrame[c].keyAuthorization,
                        created |-> now, expires |-> now + DEFAULT_TTL,
                        until |-> 0]
                  [] OTHER ->
                       IF ChExists
                       THEN [chKey EXCEPT !.until = ExpireAt(Millis(DEFAULT_TTL))]
                       ELSE NoChKey
          /\ IF o = "ok"
             THEN ChDone(c, ChValue("true", 0))
             ELSE ChDone(c, ChError("redis", 0, o))
    /\ UNCHANGED <<storeVars, clockVars, instVars, op, calls, frame, result,
                   did, idVars, histVars, chFrame, caa>>

\* acme-challenge.js:42-51, 105  getBuffer(keyName): the decoded record,
\* false when there is none, or the error of the transport
GetData(c) ==
    /\ pc[c] = "cg_read"
    /\ \E ok \in BOOLEAN :
          IF ok
          THEN /\ chFrame' = [chFrame EXCEPT ![c].tokenData =
                                 IF ChExists THEN chKey ELSE NoChKey]
               /\ pc' = [pc EXCEPT ![c] = "cg_check"]
               /\ UNCHANGED chResult
          ELSE /\ ChDone(c, ChError("redis", 0, "transport"))
               /\ UNCHANGED chFrame
    /\ UNCHANGED <<storeVars, clockVars, instVars, op, calls, frame, result,
                   did, idVars, histVars, chKey, caa>>

\* acme-challenge.js:110-115  no secret value, or expires < new Date()
Stale(tokenData, t) ==
    \/ tokenData.value = 0
    \/ (tokenData.expires /= 0 /\ tokenData.expires < t)

\* challenge.get without the test of expires: any record with a value is
\* served
GetCheckNoExpiry(c) ==
    /\ pc[c] = "cg_check"
    /\ IF ~chFrame[c].tokenData.set
       THEN ChDone(c, ChValue("null", 0))
       ELSE IF chFrame[c].tokenData.value = 0
            THEN /\ pc' = [pc EXCEPT ![c] = "cg_del"]
                 /\ UNCHANGED chResult
            ELSE ChDone(c, ChValue("keyAuthorization",
                                   chFrame[c].tokenData.value))
    /\ UNCHANGED <<storeVars, clockVars, instVars, op, calls, frame, result,
                   did, idVars, histVars, chKey, chFrame, caa>>

\* acme-challenge.js:106-122  null for no record, the delete for a stale
\* one, else {keyAuthorization}
GetCheck(c) ==
    /\ pc[c] = "cg_check"
    /\ IF ~chFrame[c].tokenData.set
       THEN ChDone(c, ChValue("null", 0))
       ELSE IF Stale(chFrame[c].tokenData, now)
            THEN /\ pc' = [pc EXCEPT ![c] = "cg_del"]
                 /\ UNCHANGED chResult
            ELSE ChDone(c, ChValue("keyAuthorization",
                                   chFrame[c].tokenData.value))
    /\ UNCHANGED <<storeVars, clockVars, instVars, op, calls, frame, result,
                   did, idVars, histVars, chKey, chFrame, caa>>

\* acme-challenge.js:116-117  deleteData, then null
GetDelete(c) ==
    /\ pc[c] = "cg_del"
    /\ chKey' = NoChKey
    /\ ChDone(c, ChValue("null", 0))
    /\ UNCHANGED <<storeVars, clockVars, instVars, op, calls, frame, result,
                   did, idVars, histVars, chFrame, caa>>

\* acme-challenge.js:125-131, 68-71  remove: del(keyName)
Remove(c) ==
    /\ pc[c] = "cr_del"
    /\ chKey' = NoChKey
    /\ ChDone(c, ChValue("deleted", 0))
    /\ UNCHANGED <<storeVars, clockVars, instVars, op, calls, frame, result,
                   did, idVars, histVars, chFrame, caa>>

\* certs.js:418-438  the Joi schema on {domain, token}: InputValidationError
\* with responseCode 400, else on to acmeChallenge.get
RouteValidate(c) ==
    /\ pc[c] = "rh_validate"
    /\ \E valid \in BOOLEAN :
          IF valid
          THEN /\ pc' = [pc EXCEPT ![c] = "cg_read"]
               /\ UNCHANGED chResult
          ELSE /\ chResult' = [chResult EXCEPT ![c] =
                                  ChError("InputValidationError", 400, "input")]
               /\ pc' = [pc EXCEPT ![c] = "done"]
    /\ UNCHANGED <<storeVars, clockVars, instVars, op, calls, frame, result,
                   did, idVars, histVars, chKey, chFrame, caa>>

\* the domains the challenge store can be asked about: unknown ones and the
\* ones an admin has registered
ChStores == {s \in InitStores : s.ver = 0}
ChInit ==
    /\ InitWith(ChStores)
    /\ inst = [c \in Procs |-> c]
    /\ ChIdle
    /\ CaaIdle

ChNext ==
    \/ \E c \in Procs :
          \/ StartChallengeSet(c)
          \/ StartChallengeGet(c)
          \/ StartChallengeRemove(c)
          \/ StartRouteHandler(c)
          \/ SetHas(c)
          \/ SetData(c)
          \/ GetData(c)
          \/ GetCheck(c)
          \/ GetDelete(c)
          \/ Remove(c)
          \/ RouteValidate(c)
    \/ ChTick

ChallengeSpec == ChInit /\ [][ChNext]_vars

\* ================================================================ claims
StoredFresh == dataF.present /\ Fresh(dataF.validTo, now)
Ordering(c) == pc[c] = "ac_create" /\ pc'[c] /= "ac_create"
Quiet == \A c \in Procs : pc[c] \in {"idle", "done"}

\* C1: of two concurrent acquireCert(D) on a record inside the renewal
\* window one issues; the other, once it holds lock:op:<D>, decides on the
\* record as it is stored at that moment: a lock holder goes on to issue
\* only if the stored record is not valid beyond now + 30 days + 10 s.
C1_DecidesOnStoredRecord ==
    [][\A c \in Procs :
          (/\ pc[c] = "ac_check"
           /\ Holds(c)
           /\ \A d \in Procs \ {c} : pc[d] \in {"idle", "done"}
           /\ pc'[c] \in {"ac_pend_get", "ga_ensure"})
              => ~StoredFresh]_vars

\* C2: acme.certificates.create is never called for D while the stored
\* record of D has validTo > now + RENEW_AFTER_REMAINING.
C2_NoOrderWhileFresh ==
    [][\A c \in Procs : Ordering(c) => ~StoredFresh]_vars

\* C3: while lock:safe:<D> exists no process starts an ACME order
\* for D and no process writes a domain:<D>:* field.
C3_NothingWhileSafeKeyExists ==
    [][SafeExists =>
          /\ \A c \in Procs : ~Ordering(c)
          /\ domainVars' = domainVars]_vars

C5_VersionCountsStoredCerts ==
    Quiet => certVersionF = rec0.certVersion + issued

\* C6: every record with a cert that getCertificate(D) returns has
\* status 'valid' and validTo >= now at the time of return.
C6_ReturnsOnlyValid ==
    \A c \in Procs :
        (/\ pc[c] = "done"
         /\ op[c] = "getCertificate"
         /\ result[c].kind = "record"
         /\ result[c].rec.cert /= 0)
            => /\ result[c].rec.status = "valid"
               /\ result[c].rec.validTo >= result[c].at

\* C7: when the ACME account cannot be obtained (acme.init or
\* accounts.create fails) acquireCert returns false and does not raise.
C7_AccountFailureReturnsFalse ==
    \A c \in Procs :
        (pc[c] = "done" /\ InAcquireCert(c)
         /\ result[c].err \in {"init", "account"})
            => result[c].kind = "false"

\* C8: when issuance fails after lock:op:<D> was taken and a record of D
\* exists then, lastError is written to it; the invocation returns the
\* record if it holds a previous cert and raises otherwise.
C8_FailureRecordedAndSuppressed ==
    \A c \in Procs :
        (pc[c] = "ac_release" /\ result[c].err /= "none")
            => /\ dataF.present => "lastError" \in did[c]
               /\ dataF.cert /= 0 => result[c].kind = "record"
               /\ dataF.cert = 0 => result[c].kind = "raised"

C10_OneInitInFlight ==
    \A i \in Insts :
        Cardinality({c \in Procs : inst[c] = i /\ pc[c] = "ga_init"}) <= 1

\* C11: challenge.remove leaves no key; a challenge.get that finds no key
\* returns null; a challenge.get that finds a record past its expires deletes
\* the key and returns null; a keyAuthorization that challenge.get returns is
\* never empty and never one of a record that had expired at the return.
C11_StaleNeverServed ==
    /\ [](\A c \in Procs :
             (op[c] = "challenge.get" /\ chResult[c].kind = "keyAuthorization")
                 => /\ chFrame[c].tokenData.set
                    /\ chResult[c].value = chFrame[c].tokenData.value
                    /\ chResult[c].value /= 0
                    /\ chFrame[c].tokenData.expires >= chResult[c].at)
    /\ [][\A c \in Procs :
             /\ (pc[c] = "cr_del" /\ pc'[c] /= pc[c]) => ~chKey'.set
             /\ (pc[c] = "cg_read" /\ pc'[c] = "cg_check" /\ ~ChExists)
                   => ~chFrame'[c].tokenData.set
             /\ (op[c] = "challenge.get" /\ pc[c] = "cg_check" /\ pc'[c] /= pc[c])
                   => IF ~chFrame[c].tokenData.set
                      THEN chResult'[c].kind = "null"
                      ELSE chFrame[c].tokenData.expires < now
                              => pc'[c] = "cg_del"
             /\ (op[c] = "challenge.get" /\ pc[c] = "cg_del" /\ pc'[c] /= pc[c])
                   => ~chKey'.set /\ chResult'[c].kind = "null"]_vars

\* a get found a record with a keyAuthorization after its expires, deleted
\* the key and returned null
C11_Witness ==
    \E c \in Procs :
        /\ op[c] = "challenge.get" /\ pc[c] = "done"
        /\ chResult[c].kind = "null"
        /\ chFrame[c].tokenData.set
        /\ chFrame[c].tokenData.value /= 0
        /\ chFrame[c].tokenData.expires < chResult[c].at
        /\ ~chKey.set

\* C12: challenge.set for a domain without the field domain:<D>:data fails
\* with an error of code not_found and response code 404.
C12_UnknownDomainIsNotFound ==
    \A c \in Procs :
        (pc[c] = "done" /\ op[c] = "challenge.set" /\ ~dataF.present)
            => /\ chResult[c].kind = "raised"
               /\ chResult[c].responseCode = 404
               /\ chResult[c].code = "not_found"

\* C13: routeHandler returns the keyAuthorization of a live challenge; for
\* an absent, expired or empty challenge it throws ChallengeNotFound with
\* responseCode 404; for a failed lookup it throws ChallengeFail with
\* responseCode 500.
C13_RouteHandlerErrors ==
    \A c \in Procs :
        (pc[c] = "done" /\ op[c] = "routeHandler")
            => CASE chResult[c].cause = "transport" ->
                      /\ chResult[c].code = "ChallengeFail"
                      /\ chResult[c].responseCode = 500
                 [] chResult[c].cause = "absent" ->
                      /\ chResult[c].code = "ChallengeNotFound"
                      /\ chResult[c].responseCode = 404
                 [] chResult[c].cause = "input" -> TRUE
                 [] OTHER ->
                      /\ chResult[c].kind = "string"
                      /\ chResult[c].value /= 0

\* C14: a getAcmeAccount() call that finds the field account:<env> set
\* returns the stored account (its kid) with the privateKey decrypted, calls
\* acme.accounts.create zero times and sends no write to settings.
C14_StoredAccountReturned ==
    [][\A c \in Procs :
          (pc[c] = "ga_get" /\ pc'[c] /= pc[c] /\ acctF /= NoAcct
           /\ op[c] = "getAcmeAccount")
              => /\ pc'[c] = "done"
                 /\ result'[c].kind = "account"
                 /\ result'[c].acct.kid = acctF.kid
                 /\ result'[c].acct.privateKey + EncTag = acctF.privateKey
                 /\ acctF' = acctF
                 /\ acctInFlight' = acctInFlight
                 /\ nextKey' = nextKey]_vars

\* two calls have returned the account that is stored; at most one of them
\* created it
C14_Witness ==
    \E c, d \in Procs :
        /\ c /= d
        /\ pc[c] = "done" /\ result[c].kind = "account"
        /\ pc[d] = "done" /\ result[d].kind = "account"
        /\ acctF /= NoAcct
        /\ result[c].acct.kid = acctF.kid
        /\ result[d].acct.kid = acctF.kid

\* C15 as stated: getCertificate(D) returns from its own check exactly when
\* the record has status 'valid' and validTo is strictly later than now.
C15_HitIffStrictlyLater ==
    [][\A c \in Procs :
          (pc[c] = "gc_load2" /\ pc'[c] /= pc[c])
              => (pc'[c] = "done"
                    <=> /\ frame[c].loaded.present
                        /\ frame[c].loaded.status = "valid"
                        /\ frame[c].loaded.validTo > now)]_vars

\* C15 amended: getCertificate(D) returns the stored record, taking no
\* lock, calling no ACME and writing nothing, exactly when the record has
\* status 'valid' and validTo >= now; a record whose validTo equals now is
\* served, an earlier one is handed to acquireCert.
C15_HitIffNotEarlier ==
    [][\A c \in Procs :
          (pc[c] = "gc_load2" /\ pc'[c] /= pc[c])
              => IF /\ frame[c].loaded.present
                    /\ frame[c].loaded.status = "valid"
                    /\ frame[c].loaded.validTo >= now
                 THEN /\ pc'[c] = "done"
                      /\ result'[c].outcome = "cachehit"
                      /\ result'[c].rec.cert = frame[c].loaded.cert
                      /\ result'[c].rec.validTo = frame[c].loaded.validTo
                      /\ did'[c] = {}
                      /\ storeVars' = storeVars
                 ELSE pc'[c] = "ac_load1"]_vars

\* a record whose validTo is the very time of the check was served
C15_Witness ==
    \E c \in Procs :
        /\ pc[c] = "done"
        /\ result[c].outcome = "cachehit"
        /\ result[c].rec.validTo = result[c].at

\* C16: every private key held in the settings hash (domain:<D>:privateKey,
\* the privateKey of account:<env>, also in a write on its way) is the
\* output of the encrypt transform, never the plaintext; loadCertificateData
\* and getAcmeAccount hand back the decrypt of what is stored.
C16_KeysAtRestEncrypted ==
    /\ [](/\ pkF = 0 \/ pkF > EncTag
          /\ acctF.privateKey = 0 \/ acctF.privateKey > EncTag
          /\ \A w \in acctInFlight : w.privateKey > EncTag)
    /\ [][\A c \in Procs :
             /\ (pc[c] \in {"ac_load1", "gc_load1", "ac_reload1"}
                 /\ pc'[c] /= pc[c])
                   => frame'[c].loaded.privateKey =
                         IF pkF = 0 THEN 0 ELSE pkF - EncTag
             /\ (pc[c] = "ga_get" /\ pc'[c] = "ac_create")
                   => frame'[c].acmeAccount.privateKey + EncTag
                         = acctF.privateKey]_vars

\* a domain key written by acquireCert and an account key are stored, and a
\* caller holds the domain key as loadCertificateData returned it
C16_Witness ==
    \E c \in Procs :
        /\ pkF > EncTag + 1
        /\ acctF.privateKey > EncTag
        /\ frame[c].existingCertificateData.privateKey /= 0
        /\ frame[c].existingCertificateData.privateKey + EncTag = pkF

\* C17: when validateDomain fails in acquireCert(D) the invocation returns
\* the existing record, does not raise, takes no lock, calls no ACME and
\* writes nothing to the record of D.
C17_ValidationFailureReturns ==
    /\ [](\A c \in Procs :
             result[c].outcome = "invalid"
                 => /\ pc[c] = "done"
                    /\ result[c].kind \in {"record", "false"}
                    /\ did[c] = {"validate"})
    /\ [][\A c \in Procs :
             (pc[c] = "ac_validate" /\ pc'[c] /= pc[c])
                 => /\ domainVars' = domainVars
                    /\ opLock' = opLock
                    /\ safeUntil' = safeUntil
                    /\ \/ pc'[c] = "ac_lock"
                       \/ /\ pc'[c] = "done"
                          /\ result'[c].outcome = "invalid"
                          /\ result'[c].rec
                                = frame[c].existingCertificateData]_vars

\* a validation failure handed back the record with its certificate
C17_Witness ==
    \E c \in Procs :
        /\ pc[c] = "done"
        /\ result[c].outcome = "invalid"
        /\ result[c].kind = "record"
        /\ result[c].rec.cert /= 0

C20_FirstAnswerDecides ==
    (caa.out \in {"pass", "caa_mismatch"}) =>
        LET S == Suffixes(caa.parts)
            Answered == {i \in S : /\ ~caa.answers[i].err
                                   /\ caa.answers[i].recs /= {}}
        IN IF caa.caaDomains = {}
           THEN caa.out = "pass" /\ caa.queried = {}
           ELSE IF Answered = {}
                THEN caa.out = "pass" /\ caa.queried = S
                ELSE LET F == CHOOSE i \in Answered :
                                 \A j \in Answered : i <= j
                     IN /\ caa.queried = 0 .. F
                        /\ IF caa.answers[F].recs \cap caa.caaDomains /= {}
                           THEN caa.out = "pass"
                           ELSE /\ caa.out = "caa_mismatch"
                                /\ caa.responseCode = 403

\* the full name lists the CA, its parent lists only another CA: the check
\* passed on the first answer and never asked the parent
C20_Witness ==
    /\ caa.out = "pass"
    /\ caa.parts = 3
    /\ caa.queried = {0}
    /\ caa.answers[0].recs = {"letsencrypt.org", "digicert.com"}
    /\ caa.answers[1].recs = {"digicert.com"}

\* C19: a put that succeeds leaves the key with a store-side expiry 2 hours
\* (7,200,000 ms) after the put.
C19_StoreExpiryTwoHours ==
    [][\A c \in Procs :
          (pc[c] = "cs_put" /\ chResult'[c].kind = "true")
              => chKey'.until = now + 2 * 3600]_vars

\* the steps of acquireCert that send a write of a domain:<D>:* field:
\* setCertificateData's hincrby and hmset (certs.js:277-283)
WritePcs == {"ac_pend_set", "ac_store_incr", "ac_store_set", "ac_catch_err"}
Writes(c) ==
    /\ pc[c] \in WritePcs
    /\ pc'[c] /= pc[c]
    /\ domainVars' /= domainVars

\* C21: every write to domain:<D>:data, :privateKey, :lastCheck, :lastError
\* or :certVersion is made by a process that holds lock:op:<D> at the moment
\* of the write, also when the issuance outlasts the 10-minute lease.
C21_WritesUnderLock ==
    [][\A c \in Procs : Writes(c) => Holds(c)]_vars

\* C22: when a getAcmeAccount() call that provisioned a new CA account has
\* returned, the record {privateKey: encrypt(priv), account} is stored under
\* account:<env>; a failed settings write makes the call fail.
C22_AccountPersistedAtReturn ==
    \A c \in Procs :
        (op[c] = "getAcmeAccount" /\ pc[c] = "done"
         /\ result[c].kind = "account")
            => /\ acctF /= NoAcct
               /\ \A w \in acctInFlight : w.kid /= result[c].acct.kid

\* the records loadCertificateData has handed out: to acquireCert
\* (certs.js:292) and, through a return, to the caller
Loaded(c) ==
    {r \in {frame[c].existingCertificateData, result[c].rec} : r.cert /= 0}

\* C23: a record returned by loadCertificateData(D) is a consistent
\* snapshot: its certVersion is the version under which its cert was stored,
\* also for a reader that races with an issuance.
C23_SnapshotConsistent ==
    \A c \in Procs : \A r \in Loaded(c) :
        [cert |-> r.cert, certVersion |-> r.certVersion] \in stored

\* C24: a record of D with status 'valid' has a cert, a validTo, a stored
\* privateKey and certVersion >= 1; once the status is 'valid' no operation
\* of the coordinator sets it back to 'pending' or removes the record.
C24_ValidStaysValid ==
    /\ [](dataF.status = "valid"
             => /\ dataF.present
                /\ dataF.cert /= 0
                /\ dataF.validTo /= 0
                /\ pkF /= 0
                /\ certVersionF >= 1)
    /\ [][dataF.status = "valid"
             => dataF'.present /\ dataF'.status = "valid"]_vars

====
